---- MODULE Spec2Model ----
(***************************************************************************)
(* Model of popup.js of the lunch-lotto extension: the fetch pipeline      *)
(* (geolocation, settings, Overpass request, normalisation, price filter,  *)
(* name dedup, timed reveal), the wheel (updateWheel,                      *)
(* addRestaurantToWheel) and the history log (loadHistory, saveToHistory). *)
(*                                                                         *)
(* JavaScript strings that the code inspects character by character (the   *)
(* price tag, the price setting, the price sign) are sequences of          *)
(* one-character strings.  Names are opaque strings.  JavaScript numbers   *)
(* are records: NaN, or Num(n) for the integer n.                          *)
(***************************************************************************)
EXTENDS Integers, Sequences, FiniteSets, TLC

VARIABLES
    options,            \* the wheel's options array (global, popup.js:183,192,353-360)
    restaurantDetails,  \* the candidate cache (global, popup.js:157,201)
    restaurantHistory,  \* the in-memory history log (popup.js:6)
    storedHistory,      \* chrome.storage.sync key "history"
    storedSettings,     \* chrome.storage.sync keys "distance" and "price"
    loadingGif,         \* style.display of #loading-gif
    wheelDisplay,       \* style.display of #wheel
    view,               \* which of main-view / settings-view / history-view is shown
    rendered,           \* number of <li> items (data-index 0..rendered-1) in #history-list
    appPc,              \* position of the DOMContentLoaded handler
    pendingSaves,       \* chrome.storage.sync.set callbacks of save-settings not yet run
    now,                \* the clock read by new Date() (popup.js:277)
    fetch               \* the invocations of fetchRestaurants, in issue order

vars == <<options, restaurantDetails, restaurantHistory, storedHistory, storedSettings,
          loadingGif, wheelDisplay, view, rendered, appPc, pendingSaves, now, fetch>>

-----------------------------------------------------------------------------
(* Bounds of the model *)

MaxFetches == 2
MaxTagLen == 4
MaxListLen == 3
MaxRecords == 9
MaxSwaps == 1
MaxTime == 3

-----------------------------------------------------------------------------
(* Program constants *)

WheelSize == 8
HistoryCap == 20
DefaultPriceLevel == 2
MinPriceLevel == 1
MaxPriceLevel == 4

-----------------------------------------------------------------------------
(* JavaScript numbers and strings *)

NaN == [nan |-> TRUE]
Num(n) == [nan |-> FALSE, val |-> n]

Digits == <<"0", "1", "2", "3", "4", "5", "6", "7", "8", "9">>
IsDigit(c) == \E i \in 1..Len(Digits) : Digits[i] = c
DigitVal(c) == (CHOOSE i \in 1..Len(Digits) : Digits[i] = c) - 1
IsWhite(c) == c = " "

RECURSIVE TrimLeft(_)
TrimLeft(s) == IF s # <<>> /\ IsWhite(Head(s)) THEN TrimLeft(Tail(s)) ELSE s

RECURSIVE TrimRight(_)
TrimRight(s) ==
    IF s # <<>> /\ IsWhite(s[Len(s)]) THEN TrimRight(SubSeq(s, 1, Len(s) - 1)) ELSE s

Trim(s) == TrimRight(TrimLeft(s))

AllDigits(s) == s # <<>> /\ \A i \in 1..Len(s) : IsDigit(s[i])

RECURSIVE DigitsValue(_)
DigitsValue(s) ==
    IF s = <<>> THEN 0 ELSE 10 * DigitsValue(SubSeq(s, 1, Len(s) - 1)) + DigitVal(s[Len(s)])

RECURSIVE DigitPrefix(_)
DigitPrefix(s) ==
    IF s # <<>> /\ IsDigit(Head(s)) THEN <<Head(s)>> \o DigitPrefix(Tail(s)) ELSE <<>>

\* Number(s) for a string s: surrounding white space is dropped, the empty
\* string is 0, an optionally signed run of decimal digits is its value, and
\* anything else over the alphabet of the model is NaN.
ToNumber(s) ==
    LET t == Trim(s)
    IN  IF t = <<>> THEN Num(0)
        ELSE IF AllDigits(t) THEN Num(DigitsValue(t))
        ELSE IF Head(t) = "-" /\ AllDigits(Tail(t)) THEN Num(0 - DigitsValue(Tail(t)))
        ELSE NaN

\* parseInt(s): leading white space is skipped, a sign is read, then the
\* longest run of digits; no digit at all gives NaN, trailing text is ignored.
ParseInt(s) ==
    LET t == TrimLeft(s)
        neg == t # <<>> /\ Head(t) = "-"
        body == IF neg THEN Tail(t) ELSE t
        ds == DigitPrefix(body)
    IN  IF ds = <<>> THEN NaN
        ELSE IF neg THEN Num(0 - DigitsValue(ds)) ELSE Num(DigitsValue(ds))

Includes(s, c) == \E i \in 1..Len(s) : s[i] = c

RECURSIVE Split(_, _)
\* s.split(c): the pieces of s between the occurrences of the character c.
Split(s, c) ==
    IF ~Includes(s, c) THEN <<s>>
    ELSE LET k == CHOOSE i \in 1..Len(s) : s[i] = c /\ \A j \in 1..(i - 1) : s[j] # c
         IN  <<SubSeq(s, 1, k - 1)>> \o Split(SubSeq(s, k + 1, Len(s)), c)

\* Math.max and Math.min: NaN if either argument is NaN.
MathMax(a, b) == IF a.nan \/ b.nan THEN NaN ELSE IF a.val >= b.val THEN a ELSE b
MathMin(a, b) == IF a.nan \/ b.nan THEN NaN ELSE IF a.val <= b.val THEN a ELSE b

\* "$".repeat(n): ToIntegerOrInfinity(NaN) is 0, so the count NaN gives "".
Repeat(c, n) == IF n.nan THEN <<>> ELSE [i \in 1..n.val |-> c]

\* a >= b and a <= b on numbers: false as soon as one side is NaN.
NumGeq(a, b) == ~a.nan /\ ~b.nan /\ a.val >= b.val
NumLeq(a, b) == ~a.nan /\ ~b.nan /\ a.val <= b.val

\* n.toFixed(1) of a distance held in hundredths of a mile: the miles and the
\* tenth, rounded half up.
ToFixed1(hundredths) ==
    LET tenths == (hundredths + 5) \div 10
    IN  <<tenths \div 10, ".", tenths % 10>>

-----------------------------------------------------------------------------
(* ResponseNormalizer: lines 77-133 *)

HasTag(element, key) ==
    /\ "tags" \in DOMAIN element
    /\ key \in DOMAIN element.tags

\* element.tags && element.tags.amenity === 'restaurant' && element.tags.name
IsNamedRestaurant(element) ==
    /\ HasTag(element, "amenity")
    /\ element.tags.amenity = "restaurant"
    /\ HasTag(element, "name")
    /\ element.tags.name # ""

NamedRestaurants(elements) == SelectSeq(elements, IsNamedRestaurant)

\* priceLevel.split('$').length - 1
CountDollar(s) == Len(Split(s, "$")) - 1

\* Math.min(Math.max(priceLevel, 1), 4)
Clamp(level) == MathMin(MathMax(level, Num(MinPriceLevel)), Num(MaxPriceLevel))

\* The price level of lines 98-110, for the tag map of an element.
PriceLevel(tags) ==
    IF "price" \in DOMAIN tags /\ tags.price # <<>>
    THEN LET raw == IF Includes(tags.price, "$") THEN Num(CountDollar(tags.price))
                    ELSE IF ~ToNumber(tags.price).nan THEN ParseInt(tags.price)
                    ELSE Num(DefaultPriceLevel)
         IN  Clamp(raw)
    ELSE Num(DefaultPriceLevel)

OsmType(element) ==
    IF element.type = "node" THEN "node"
    ELSE IF element.type = "way" THEN "way" ELSE "relation"

ElementLat(element) == IF "center" \in DOMAIN element THEN element.center.lat ELSE element.lat
ElementLng(element) == IF "center" \in DOMAIN element THEN element.center.lon ELSE element.lon

OsmUrl(type, id) == <<"https://www.openstreetmap.org/", type, "/", id>>
MapUrl(lat, lng) == <<"https://www.openstreetmap.org/?mlat=", lat, "&mlon=", lng, "&zoom=18">>

\* The candidate built from one element: lines 92-133.
Normalize(element, settings) ==
    [name     |-> element.tags.name,
     distance |-> ToFixed1(settings.distance),
     price    |-> Repeat("$", PriceLevel(element.tags)),
     lat      |-> ElementLat(element),
     lng      |-> ElementLng(element),
     osmId    |-> element.id,
     osmType  |-> OsmType(element),
     osmUrl   |-> OsmUrl(OsmType(element), element.id),
     mapUrl   |-> MapUrl(ElementLat(element), ElementLng(element))]

NormalizeAll(elements, settings) ==
    [i \in 1..Len(elements) |-> Normalize(elements[i], settings)]

-----------------------------------------------------------------------------
(* FilterDeduplicator: lines 135-152 *)

\* const [minPrice, maxPrice] = settings.price.split(',').map(Number): a
\* missing second piece leaves maxPrice undefined, which compares like NaN.
PriceBounds(price) ==
    LET parts == Split(price, ",")
    IN  [min |-> ToNumber(parts[1]),
         max |-> IF Len(parts) >= 2 THEN ToNumber(parts[2]) ELSE NaN]

InRangeMutant(restaurant, bounds) ==
    /\ NumGeq(Num(Len(restaurant.price)), bounds.min)
    /\ ~NumGeq(Num(Len(restaurant.price)), bounds.max)

\* restaurantPrice >= minPrice && restaurantPrice <= maxPrice
InRange(restaurant, bounds) ==
    /\ NumGeq(Num(Len(restaurant.price)), bounds.min)
    /\ NumLeq(Num(Len(restaurant.price)), bounds.max)

RECURSIVE DedupFrom(_, _)
DedupFrom(restaurants, seen) ==
    IF restaurants = <<>> THEN <<>>
    ELSE IF Head(restaurants).name \in seen THEN DedupFrom(Tail(restaurants), seen)
    ELSE <<Head(restaurants)>> \o DedupFrom(Tail(restaurants), seen \cup {Head(restaurants).name})

RemoveDuplicatesMutant(restaurants) ==
    IF Len(restaurants) <= 1 THEN restaurants
    ELSE DedupFrom(SubSeq(restaurants, 1, Len(restaurants) - 1), {})
            \o <<restaurants[Len(restaurants)]>>

RECURSIVE DedupForgetting(_, _)
\* A dedup whose seen Set forgets a name each time it drops a duplicate of it.
DedupForgetting(restaurants, seen) ==
    IF restaurants = <<>> THEN <<>>
    ELSE IF Head(restaurants).name \in seen
         THEN DedupForgetting(Tail(restaurants), seen \ {Head(restaurants).name})
    ELSE <<Head(restaurants)>>
            \o DedupForgetting(Tail(restaurants), seen \cup {Head(restaurants).name})

RemoveDuplicatesForgetful(restaurants) == DedupForgetting(restaurants, {})

\* Lines 145-152: the filter over a Set of the names already seen.
RemoveDuplicates(restaurants) == DedupFrom(restaurants, {})

\* The price filter run on the list the dedup has already been through.
PriceFilterAfterDedup(restaurants, price) ==
    IF price = <<>> THEN restaurants
    ELSE LET bounds == PriceBounds(price)
             Keep(r) == InRange(r, bounds)
         IN  SelectSeq(DedupFrom(restaurants, {}), Keep)

\* Lines 136-142: skipped when settings.price is the empty string.
PriceFilter(restaurants, price) ==
    IF price = <<>> THEN restaurants
    ELSE LET bounds == PriceBounds(price)
             Keep(r) == InRange(r, bounds)
         IN  SelectSeq(restaurants, Keep)

-----------------------------------------------------------------------------
(* WheelSelector: updateWheel (lines 182-210), addRestaurantToWheel (352-364) *)

Min(a, b) == IF a <= b THEN a ELSE b

Identity(n) == [i \in 1..n |-> i]

RECURSIVE WithinSwaps(_, _)
\* The permutations of 1..n at most k swaps of neighbours away from the identity.
WithinSwaps(n, k) ==
    IF k = 0 THEN {Identity(n)}
    ELSE LET prev == WithinSwaps(n, k - 1)
         IN  prev \cup {[p EXCEPT ![i] = p[i + 1], ![i + 1] = p[i]] :
                            p \in prev, i \in 1..(n - 1)}

\* The outcomes of [...restaurants].sort(() => Math.random() - 0.5) that the
\* model explores: the comparator is inconsistent, so the order the sort
\* leaves is some permutation; the model draws it within MaxSwaps swaps of
\* neighbours.
Shuffles(n) == WithinSwaps(n, MaxSwaps)

Shuffled(restaurants, p) == [i \in 1..Len(restaurants) |-> restaurants[p[i]]]

\* { name: restaurant.name, mapUrl: restaurant.mapUrl }
Project(restaurant) == [name |-> restaurant.name, mapUrl |-> restaurant.mapUrl]

SelectedMutant(shuffledRestaurants) ==
    SubSeq(shuffledRestaurants, 1, Min(Len(shuffledRestaurants), WheelSize + 1))

\* shuffledRestaurants.slice(0, 8)
Selected(shuffledRestaurants) ==
    SubSeq(shuffledRestaurants, 1, Min(Len(shuffledRestaurants), WheelSize))

\* The options updateWheel leaves, for the order p the sort produced.
WheelOf(restaurants, p) ==
    LET selectedRestaurants == Selected(Shuffled(restaurants, p))
    IN  [i \in 1..Len(selectedRestaurants) |-> Project(selectedRestaurants[i])]

AddedToWheelMutant(opts, restaurant) ==
    (IF Len(opts) > WheelSize THEN SubSeq(opts, 1, Len(opts) - 1) ELSE opts)
        \o <<Project(restaurant)>>

\* addRestaurantToWheel with shift() in the place of pop().
AddedToWheelShifting(opts, restaurant) ==
    (IF Len(opts) >= WheelSize THEN Tail(opts) ELSE opts) \o <<Project(restaurant)>>

\* The options addRestaurantToWheel leaves: pop when 8 or more, then push.
AddedToWheel(opts, restaurant) ==
    (IF Len(opts) >= WheelSize THEN SubSeq(opts, 1, Len(opts) - 1) ELSE opts)
        \o <<Project(restaurant)>>

-----------------------------------------------------------------------------
(* HistoryStore: loadHistory (lines 265-272), saveToHistory (274-287) *)

\* { ...restaurant, timestamp: new Date().toISOString() }
HistoryEntry(restaurant, ts) ==
    [k \in DOMAIN restaurant \cup {"timestamp"} |->
        IF k = "timestamp" THEN ts ELSE restaurant[k]]

TruncatedMutant(log) ==
    IF Len(log) > HistoryCap + 1 THEN SubSeq(log, 1, HistoryCap) ELSE log

\* if (restaurantHistory.length > 20) restaurantHistory.slice(0, 20)
Truncated(log) ==
    IF Len(log) > HistoryCap THEN SubSeq(log, 1, HistoryCap) ELSE log

AppendedMutant(log, restaurant, ts) == Truncated(log \o <<HistoryEntry(restaurant, ts)>>)

\* The log after unshift(historyEntry) and the truncation.
Appended(log, restaurant, ts) == Truncated(<<HistoryEntry(restaurant, ts)>> \o log)

-----------------------------------------------------------------------------
(* State of the program *)

FetchIds == 1..MaxFetches

\* The wheel's options array and the candidate cache are globals declared
\* with the wheel's drawing code; the wheel starts without options.
InitialOptions == <<>>
InitialDetails == <<>>

\* defaultSettings (lines 1-5): 0.5 miles, price "2,3".
DefaultSettings == [distance |-> 50, price |-> <<"2", ",", "3">>]

\* What the distance and price inputs of the settings view may hold on a save.
SettingsInputs ==
    {DefaultSettings,
     [distance |-> 125, price |-> <<"3", ",", "4">>],
     [distance |-> 50, price |-> <<>>]}

\* An invocation of fetchRestaurants that has not been made yet.  The locals
\* of an invocation (settings, elements, restaurants) are held from the line
\* that sets them to the last line that reads them, and are back at these
\* values outside of that.
IdleFetch ==
    [pc |-> "idle", settings |-> DefaultSettings, elements |-> <<>>,
     restaurants |-> <<>>, alert |-> "none"]

Ended == {"aborted", "failed", "revealed"}

RestaurantTags(name) == [amenity |-> "restaurant", name |-> name]
PricedTags(name, price) == [amenity |-> "restaurant", name |-> name, price |-> price]
Node(id, tags) == [type |-> "node", id |-> id, lat |-> id, lon |-> 10 + id, tags |-> tags]
Way(id, tags) == [type |-> "way", id |-> id, center |-> [lat |-> id, lon |-> 10 + id], tags |-> tags]

\* Overpass documents the main specification answers a request with.
MainResponses ==
    {[version |-> "0.6"],
     [elements |-> <<>>],
     [elements |-> <<[type |-> "node", id |-> 1, lat |-> 1, lon |-> 11],
                     Node(2, [amenity |-> "restaurant"])>>],
     [elements |-> <<Node(1, PricedTags("A", <<"$">>))>>],
     [elements |-> <<Node(1, RestaurantTags("A")), Way(2, RestaurantTags("B"))>>],
     [elements |-> <<Node(1, PricedTags("C", <<"$", "$", "$">>)),
                     Way(2, RestaurantTags("A")),
                     Node(3, PricedTags("C", <<"3">>))>>]}

\* The log a previous session left in storage.
OldEntry(name, id) ==
    HistoryEntry(Project(Normalize(Node(id, RestaurantTags(name)), DefaultSettings)), 0)

Init ==
    /\ options = InitialOptions
    /\ restaurantDetails = InitialDetails
    /\ restaurantHistory = <<>>
    /\ storedHistory = <<OldEntry("A", 7)>>
    /\ storedSettings \in SettingsInputs
    /\ loadingGif = "none"
    /\ wheelDisplay = "block"
    /\ view = "main"
    /\ rendered = 0
    /\ appPc = "init"
    /\ pendingSaves = 0
    /\ now = 0
    /\ fetch = [f \in FetchIds |-> IdleFetch]

-----------------------------------------------------------------------------
(* fetchRestaurants: lines 22-180 *)

Started == {f \in FetchIds : fetch[f].pc # "idle"}

NextFetch == CHOOSE f \in FetchIds : fetch[f].pc = "idle" /\ \A g \in 1..(f - 1) : fetch[g].pc # "idle"

\* Lines 23-28, the synchronous part: the loading GIF replaces the wheel and
\* the position is requested.
FetchRestaurants ==
    /\ \E f \in FetchIds : fetch[f].pc = "idle"
    /\ loadingGif' = "block"
    /\ wheelDisplay' = "none"
    /\ fetch' = [fetch EXCEPT ![NextFetch].pc = "locating"]

\* Lines 169-174: the geolocation error callback.
GeoError(f) ==
    /\ fetch[f].pc = "locating"
    /\ fetch' = [fetch EXCEPT ![f].pc = "aborted", ![f].alert = "location"]
    /\ loadingGif' = "none"
    /\ wheelDisplay' = "block"
    /\ UNCHANGED <<options, restaurantDetails, restaurantHistory, storedHistory,
                   storedSettings, view, rendered, appPc, pendingSaves, now>>

\* Lines 28-30: the success callback starts and awaits loadSettings().
GeoSuccess(f) ==
    /\ fetch[f].pc = "locating"
    /\ fetch' = [fetch EXCEPT ![f].pc = "settings"]
    /\ UNCHANGED <<options, restaurantDetails, restaurantHistory, storedHistory,
                   storedSettings, loadingGif, wheelDisplay, view, rendered, appPc,
                   pendingSaves, now>>

\* Lines 30-59: the settings arrive, the query is built and posted.
SettingsLoaded(f) ==
    /\ fetch[f].pc = "settings"
    /\ fetch' = [fetch EXCEPT ![f].pc = "requesting", ![f].settings = storedSettings]
    /\ UNCHANGED <<options, restaurantDetails, restaurantHistory, storedHistory,
                   storedSettings, loadingGif, wheelDisplay, view, rendered, appPc,
                   pendingSaves, now>>

\* The throw of line 62, a rejected fetch() (line 53) or a rejected
\* response.json() (line 65): the async callback's promise is rejected; the
\* try of line 23 has already been left, so lines 175-179 do not run.
Rejected(f) ==
    /\ fetch' = [fetch EXCEPT ![f] = [IdleFetch EXCEPT !.pc = "failed"]]
    /\ UNCHANGED <<options, restaurantDetails, restaurantHistory, storedHistory,
                   storedSettings, loadingGif, wheelDisplay, view, rendered, appPc,
                   pendingSaves, now>>

\* Line 53: fetch() rejects (transport failure).
TransportFailure(f) ==
    /\ fetch[f].pc = "requesting"
    /\ Rejected(f)

\* Lines 53-65: a response arrives; a status outside 2xx throws.
ResponseArrived(f, ok) ==
    /\ fetch[f].pc = "requesting"
    /\ IF ok
       THEN /\ fetch' = [fetch EXCEPT ![f].pc = "parsing"]
            /\ UNCHANGED <<options, restaurantDetails, restaurantHistory, storedHistory,
                           storedSettings, loadingGif, wheelDisplay, view, rendered,
                           appPc, pendingSaves, now>>
       ELSE Rejected(f)

\* Line 65: response.json() rejects.
JsonFailure(f) ==
    /\ fetch[f].pc = "parsing"
    /\ Rejected(f)

EmptyResultMutant(f, message) ==
    /\ fetch' = [fetch EXCEPT ![f] = [IdleFetch EXCEPT !.pc = "aborted", !.alert = message]]
    /\ loadingGif' = "none"
    /\ wheelDisplay' = "block"
    /\ options' = <<>>
    /\ UNCHANGED restaurantDetails

\* Lines 67-73 and 83-89: alert, show the wheel again, return.
EmptyResult(f, message) ==
    /\ fetch' = [fetch EXCEPT ![f] = [IdleFetch EXCEPT !.pc = "aborted", !.alert = message]]
    /\ loadingGif' = "none"
    /\ wheelDisplay' = "block"
    /\ UNCHANGED <<options, restaurantDetails>>

\* Lines 92-152 on the named elements: normalise, filter by price, dedup.
Candidates(elements, settings) ==
    RemoveDuplicates(PriceFilter(NormalizeAll(elements, settings), settings.price))

\* Lines 157-160: the object holding the candidates under their names.
ByName(restaurants) ==
    [n \in {restaurants[i].name : i \in 1..Len(restaurants)} |->
        restaurants[CHOOSE i \in 1..Len(restaurants) :
                        /\ restaurants[i].name = n
                        /\ \A j \in (i + 1)..Len(restaurants) : restaurants[j].name # n]]

\* Lines 65-167: the document is there; either an empty-result exit or the
\* candidates are computed, cached and the reveal timer is set.
JsonParsed(f, data) ==
    /\ fetch[f].pc = "parsing"
    /\ IF "elements" \notin DOMAIN data \/ data.elements = <<>>
       THEN EmptyResult(f, "none found")
       ELSE IF NamedRestaurants(data.elements) = <<>>
       THEN EmptyResult(f, "none named")
       ELSE /\ fetch' = [fetch EXCEPT
                    ![f].pc = "waiting",
                    ![f].settings = DefaultSettings,
                    ![f].restaurants =
                        Candidates(NamedRestaurants(data.elements), fetch[f].settings)]
            /\ restaurantDetails' =
                   ByName(Candidates(NamedRestaurants(data.elements), fetch[f].settings))
            /\ UNCHANGED <<options, loadingGif, wheelDisplay>>
    /\ UNCHANGED <<restaurantHistory, storedHistory, storedSettings, view, rendered,
                   appPc, pendingSaves, now>>

\* updateWheel (lines 182-210) for the order p left by the sort.
UpdateWheel(restaurants, p) ==
    /\ options' = WheelOf(restaurants, p)
    /\ restaurantDetails' = WheelOf(restaurants, p)

\* The reveal with a generation guard: a fetch that is not the latest one
\* issued shows the wheel again but discards its result.
RevealIfLatest(f) ==
    /\ fetch[f].pc = "waiting"
    /\ fetch' = [fetch EXCEPT ![f] = [IdleFetch EXCEPT !.pc = "revealed"]]
    /\ loadingGif' = "none"
    /\ wheelDisplay' = "block"
    /\ IF \E g \in FetchIds : g > f /\ fetch[g].pc # "idle"
       THEN UNCHANGED <<options, restaurantDetails>>
       ELSE \E p \in Shuffles(Len(fetch[f].restaurants)) :
                UpdateWheel(fetch[f].restaurants, p)
    /\ UNCHANGED <<restaurantHistory, storedHistory, storedSettings, view, rendered,
                   appPc, pendingSaves, now>>

\* Lines 163-167: the timer fires, the wheel is shown and rebuilt.
Reveal(f) ==
    /\ fetch[f].pc = "waiting"
    /\ fetch' = [fetch EXCEPT ![f] = [IdleFetch EXCEPT !.pc = "revealed"]]
    /\ loadingGif' = "none"
    /\ wheelDisplay' = "block"
    /\ \E p \in Shuffles(Len(fetch[f].restaurants)) : UpdateWheel(fetch[f].restaurants, p)
    /\ UNCHANGED <<restaurantHistory, storedHistory, storedSettings, view, rendered,
                   appPc, pendingSaves, now>>

-----------------------------------------------------------------------------
(* The DOMContentLoaded handler and the views: lines 212-263, 289-350 *)

\* Lines 224-225: the handler starts and awaits loadHistory().
DOMContentLoaded ==
    /\ appPc = "init"
    /\ appPc' = "loadingHistory"
    /\ UNCHANGED <<options, restaurantDetails, restaurantHistory, storedHistory,
                   storedSettings, loadingGif, wheelDisplay, view, rendered,
                   pendingSaves, now, fetch>>

\* Lines 267-270 and 226-241: the stored log arrives, the first fetch is
\* started, the click handlers are registered, loadSettings() is awaited.
HistoryLoaded ==
    /\ appPc = "loadingHistory"
    /\ restaurantHistory' = storedHistory
    /\ FetchRestaurants
    /\ appPc' = "loadingSettings"
    /\ UNCHANGED <<options, restaurantDetails, storedHistory, storedSettings, view,
                   rendered, pendingSaves, now>>

\* Lines 241-262: the inputs are filled and the save handler is registered.
SettingsShown ==
    /\ appPc = "loadingSettings"
    /\ appPc' = "ready"
    /\ UNCHANGED <<options, restaurantDetails, restaurantHistory, storedHistory,
                   storedSettings, loadingGif, wheelDisplay, view, rendered,
                   pendingSaves, now, fetch>>

Registered == appPc \in {"loadingSettings", "ready"}

\* showSettings (lines 213-216), on a click of open-settings.
ShowSettings ==
    /\ Registered
    /\ view = "main"
    /\ view' = "settings"
    /\ UNCHANGED <<options, restaurantDetails, restaurantHistory, storedHistory,
                   storedSettings, loadingGif, wheelDisplay, rendered, appPc,
                   pendingSaves, now, fetch>>

\* hideSettings (lines 218-221), on a click of close-settings.
HideSettings ==
    /\ Registered
    /\ view = "settings"
    /\ view' = "main"
    /\ UNCHANGED <<options, restaurantDetails, restaurantHistory, storedHistory,
                   storedSettings, loadingGif, wheelDisplay, rendered, appPc,
                   pendingSaves, now, fetch>>

\* Lines 246-251: the save-settings click writes the two inputs to storage.
\* The guard on the count keeps the invocations within FetchIds.
SaveSettingsClick(settings) ==
    /\ appPc = "ready"
    /\ view = "settings"
    /\ Cardinality(Started) + pendingSaves < MaxFetches
    /\ storedSettings' = settings
    /\ pendingSaves' = pendingSaves + 1
    /\ UNCHANGED <<options, restaurantDetails, restaurantHistory, storedHistory,
                   loadingGif, wheelDisplay, view, rendered, appPc, now, fetch>>

\* Lines 251-261: the storage callback hides the settings and fetches again.
SettingsSaved ==
    /\ pendingSaves > 0
    /\ pendingSaves' = pendingSaves - 1
    /\ view' = IF view = "settings" THEN "main" ELSE view
    /\ FetchRestaurants
    /\ UNCHANGED <<options, restaurantDetails, restaurantHistory, storedHistory,
                   storedSettings, rendered, appPc, now>>

\* showHistory (lines 289-345), on a click of open-history.
ShowHistory ==
    /\ Registered
    /\ view = "main"
    /\ view' = "history"
    /\ rendered' = Len(restaurantHistory)
    /\ UNCHANGED <<options, restaurantDetails, restaurantHistory, storedHistory,
                   storedSettings, loadingGif, wheelDisplay, appPc, pendingSaves, now,
                   fetch>>

\* hideHistory (lines 347-350), on a click of close-history.
HideHistory ==
    /\ Registered
    /\ view = "history"
    /\ view' = "main"
    /\ UNCHANGED <<options, restaurantDetails, restaurantHistory, storedHistory,
                   storedSettings, loadingGif, wheelDisplay, rendered, appPc,
                   pendingSaves, now, fetch>>

\* Lines 321-336: both view-on-map handlers open the entry's map URL.
ViewOnMap(index) ==
    /\ view = "history"
    /\ index \in 1..rendered
    /\ restaurantHistory[index].mapUrl = restaurantHistory[index].mapUrl
    /\ UNCHANGED vars

\* addRestaurantToWheel (lines 352-364).
AddRestaurantToWheel(restaurant) ==
    options' = AddedToWheel(options, restaurant)

\* The add-to-wheel click taking its entry out of the log with splice().
AddToWheelClickSplicing(index) ==
    /\ view = "history"
    /\ index \in 1..rendered
    /\ AddRestaurantToWheel(restaurantHistory[index])
    /\ restaurantHistory' =
           SubSeq(restaurantHistory, 1, index - 1)
               \o SubSeq(restaurantHistory, index + 1, Len(restaurantHistory))
    /\ view' = "main"
    /\ UNCHANGED <<restaurantDetails, storedHistory, storedSettings, loadingGif,
                   wheelDisplay, rendered, appPc, pendingSaves, now, fetch>>

\* Lines 338-344: the add-to-wheel click on the item rendered with data-index.
AddToWheelClick(index) ==
    /\ view = "history"
    /\ index \in 1..rendered
    /\ AddRestaurantToWheel(restaurantHistory[index])
    /\ view' = "main"
    /\ UNCHANGED <<restaurantDetails, restaurantHistory, storedHistory, storedSettings,
                   loadingGif, wheelDisplay, rendered, appPc, pendingSaves, now, fetch>>

\* saveToHistory (lines 274-287); the clock has moved on since the last call.
SaveToHistory(restaurant) ==
    /\ now < MaxTime
    /\ now' = now + 1
    /\ restaurantHistory' = Appended(restaurantHistory, restaurant, now + 1)
    /\ storedHistory' = Appended(restaurantHistory, restaurant, now + 1)
    /\ UNCHANGED <<options, restaurantDetails, storedSettings, loadingGif, wheelDisplay,
                   view, rendered, appPc, pendingSaves, fetch>>

FetchStep(f) ==
    \/ GeoError(f)
    \/ GeoSuccess(f)
    \/ SettingsLoaded(f)
    \/ TransportFailure(f)
    \/ \E ok \in BOOLEAN : ResponseArrived(f, ok)
    \/ JsonFailure(f)
    \/ \E data \in MainResponses : JsonParsed(f, data)
    \/ Reveal(f)

Next ==
    \/ DOMContentLoaded
    \/ HistoryLoaded
    \/ SettingsShown
    \/ ShowSettings
    \/ HideSettings
    \/ \E settings \in SettingsInputs : SaveSettingsClick(settings)
    \/ SettingsSaved
    \/ \E f \in FetchIds : FetchStep(f)

Spec == Init /\ [][Next]_vars

-----------------------------------------------------------------------------
(* The passes of lines 92-152, one at a time, over bounded inputs *)

\* The characters price tags are made of: the currency symbol, two digits,
\* the minus sign, white space and a letter.
TagChars == {"$", "0", "3", "-", " ", "a"}

PriceTags == UNION {[1..n -> TagChars] : n \in 0..MaxTagLen}

\* One named restaurant with every price tag, and one without the tag.
TagInputs ==
    {<<Node(1, PricedTags("A", t))>> : t \in PriceTags} \cup {<<Node(1, RestaurantTags("A"))>>}

Range(lo, hi) == <<Digits[lo + 1], ",", Digits[hi + 1]>>

PriceLevels == MinPriceLevel..MaxPriceLevel

\* The price settings: none, and every pair of levels.
PriceSettings ==
    {[distance |-> 50, price |-> <<>>]}
        \cup {[distance |-> 50, price |-> Range(lo, hi)] : lo \in PriceLevels, hi \in PriceLevels}

ListTags(name) ==
    {RestaurantTags(name),
     PricedTags(name, <<"$", "$">>),
     PricedTags(name, <<"$", "$", "$">>),
     PricedTags(name, <<"1">>)}

\* Lists of named restaurants, two names, with and without price tags.
ListInputs ==
    UNION {{[i \in 1..n |-> Node(i, tags[i])] :
                tags \in [1..n -> ListTags("A") \cup ListTags("B")]} : n \in 0..MaxListLen}

PipelineFetch(elements, settings) ==
    [pc |-> "normalizing", settings |-> settings, elements |-> elements,
     restaurants |-> <<>>, alert |-> "none"]

InitPipeline ==
    /\ options = InitialOptions
    /\ restaurantDetails = InitialDetails
    /\ restaurantHistory = <<>>
    /\ storedHistory = <<>>
    /\ storedSettings = DefaultSettings
    /\ loadingGif = "block"
    /\ wheelDisplay = "none"
    /\ view = "main"
    /\ rendered = 0
    /\ appPc = "ready"
    /\ pendingSaves = 0
    /\ now = 0
    /\ \E elements \in TagInputs \cup ListInputs, settings \in PriceSettings :
          /\ elements \in TagInputs => settings.price \in {<<>>, DefaultSettings.price}
          /\ fetch = [f \in FetchIds |->
                        IF f = 1 THEN PipelineFetch(elements, settings) ELSE IdleFetch]

PassUnchanged ==
    UNCHANGED <<options, restaurantDetails, restaurantHistory, storedHistory,
                storedSettings, loadingGif, wheelDisplay, view, rendered, appPc,
                pendingSaves, now>>

\* Lines 92-133: restaurantElements.map(...)
MapElements(f) ==
    /\ fetch[f].pc = "normalizing"
    /\ fetch' = [fetch EXCEPT
            ![f].pc = "filtering",
            ![f].restaurants = NormalizeAll(fetch[f].elements, fetch[f].settings)]
    /\ PassUnchanged

\* Lines 135-142: the price filter.
FilterByPrice(f) ==
    /\ fetch[f].pc = "filtering"
    /\ fetch' = [fetch EXCEPT
            ![f].pc = "deduping",
            ![f].restaurants = PriceFilter(fetch[f].restaurants, fetch[f].settings.price)]
    /\ PassUnchanged

\* Lines 144-152: the name dedup.
DedupNames(f) ==
    /\ fetch[f].pc = "deduping"
    /\ fetch' = [fetch EXCEPT
            ![f].pc = "storing",
            ![f].restaurants = RemoveDuplicates(fetch[f].restaurants)]
    /\ PassUnchanged

NextPipeline ==
    \E f \in FetchIds :
        \/ MapElements(f)
        \/ FilterByPrice(f)
        \/ DedupNames(f)

SpecPipeline == InitPipeline /\ [][NextPipeline]_vars

-----------------------------------------------------------------------------
(* The history log alone: loadHistory and saveToHistory over stored logs *)

\* A stored log of n entries, newest first; the entry at position i was made
\* from the element of id n + 1 - i.
OldLog(n) == [i \in 1..n |-> OldEntry(IF i % 2 = 0 THEN "A" ELSE "B", n + 1 - i)]

\* What saveToHistory is called with: a candidate of a node, a candidate of a
\* way, and a wheel option.
HistoryInputs ==
    {Normalize(Node(1, PricedTags("A", <<"$">>)), DefaultSettings),
     Normalize(Way(2, RestaurantTags("B")), DefaultSettings),
     Project(Normalize(Node(3, RestaurantTags("C")), DefaultSettings))}

InitHistory ==
    /\ options = InitialOptions
    /\ restaurantDetails = InitialDetails
    /\ restaurantHistory = <<>>
    /\ storedHistory \in {OldLog(n) : n \in 0..HistoryCap}
    /\ storedSettings = DefaultSettings
    /\ loadingGif = "none"
    /\ wheelDisplay = "block"
    /\ view = "main"
    /\ rendered = 0
    /\ appPc = "init"
    /\ pendingSaves = 0
    /\ now = 0
    /\ fetch = [f \in FetchIds |-> IdleFetch]

\* A call of saveToHistory once the handlers are registered.
SaveCall(restaurant) ==
    /\ Registered
    /\ SaveToHistory(restaurant)

NextHistory ==
    \/ DOMContentLoaded
    \/ HistoryLoaded
    \/ SettingsShown
    \/ \E restaurant \in HistoryInputs : SaveCall(restaurant)

SpecHistory == InitHistory /\ [][NextHistory]_vars

-----------------------------------------------------------------------------
(* The wheel alone: rebuilds by successive fetches and add-to-wheel clicks *)

NamePool == <<"A", "B", "C", "D", "E", "F", "G", "H", "I", "J", "K", "L">>

\* n named restaurants of different names, without price tags.
Records(n) == [i \in 1..n |-> Node(i, RestaurantTags(NamePool[i]))]

\* Documents of 2, 8 and MaxRecords restaurants, and one whose only
\* restaurant the default price range removes.
WheelResponses ==
    {[elements |-> Records(n)] : n \in {2, WheelSize, MaxRecords}}
        \cup {[elements |-> <<Node(1, PricedTags("A", <<"$">>))>>]}

InitWheel ==
    /\ options = InitialOptions
    /\ restaurantDetails = InitialDetails
    /\ restaurantHistory = <<>>
    /\ storedHistory = <<OldEntry("Z", 30), OldEntry("A", 31)>>
    /\ storedSettings = DefaultSettings
    /\ loadingGif = "none"
    /\ wheelDisplay = "block"
    /\ view = "main"
    /\ rendered = 0
    /\ appPc = "init"
    /\ pendingSaves = 0
    /\ now = 0
    /\ fetch = [f \in FetchIds |-> IdleFetch]

\* A save of the settings while no fetch is in flight.
SaveWhenIdle ==
    /\ \A f \in FetchIds : fetch[f].pc \in Ended \cup {"idle"}
    /\ pendingSaves = 0
    /\ SaveSettingsClick(DefaultSettings)

NextWheel ==
    \/ DOMContentLoaded
    \/ HistoryLoaded
    \/ SettingsShown
    \/ ShowSettings
    \/ SaveWhenIdle
    \/ SettingsSaved
    \/ ShowHistory
    \/ HideHistory
    \/ \E index \in 1..HistoryCap : ViewOnMap(index)
    \/ \E index \in 1..HistoryCap : AddToWheelClick(index)
    \/ \E f \in FetchIds :
          \/ GeoSuccess(f)
          \/ SettingsLoaded(f)
          \/ ResponseArrived(f, TRUE)
          \/ \E data \in WheelResponses : JsonParsed(f, data)
          \/ Reveal(f)

SpecWheel == InitWheel /\ [][NextWheel]_vars

-----------------------------------------------------------------------------
(* The history log beside the wheel: saveToHistory among the add-to-wheel   *)
(* clicks, the history view and a fetch                                     *)

\* The restaurant the stored log is made of.
Favourite == Normalize(Node(7, RestaurantTags("A")), DefaultSettings)

\* A stored log of n picks of the same restaurant, newest first, made at n
\* different times before the session.
PastLog(n) == [i \in 1..n |-> HistoryEntry(Favourite, 0 - i)]

\* What saveToHistory is called with: the candidate, and its wheel option.
LogInputs == {Favourite, Project(Favourite)}

\* The document the fetch is answered with: two restaurants, so that the
\* add-to-wheel clicks fill the wheel.
LogResponses == {[elements |-> Records(2)]}

InitLog ==
    /\ options = InitialOptions
    /\ restaurantDetails = InitialDetails
    /\ restaurantHistory = <<>>
    /\ storedHistory \in {PastLog(0), PastLog(HistoryCap - 1)}
    /\ storedSettings = DefaultSettings
    /\ loadingGif = "none"
    /\ wheelDisplay = "block"
    /\ view = "main"
    /\ rendered = 0
    /\ appPc = "init"
    /\ pendingSaves = 0
    /\ now = 0
    /\ fetch = [f \in FetchIds |-> IdleFetch]

NextLog ==
    \/ DOMContentLoaded
    \/ HistoryLoaded
    \/ SettingsShown
    \/ ShowHistory
    \/ HideHistory
    \/ \E index \in 1..HistoryCap : ViewOnMap(index)
    \/ \E index \in 1..HistoryCap : AddToWheelClick(index)
    \/ \E restaurant \in LogInputs : SaveCall(restaurant)
    \/ \E f \in FetchIds :
          \/ GeoError(f)
          \/ GeoSuccess(f)
          \/ SettingsLoaded(f)
          \/ ResponseArrived(f, TRUE)
          \/ \E data \in LogResponses : JsonParsed(f, data)
          \/ Reveal(f)

SpecLog == InitLog /\ [][NextLog]_vars

-----------------------------------------------------------------------------
(* Claims about the passes, checked under SpecPipeline *)

Level(restaurant) == Len(restaurant.price)

\* C3: for every record that passes the name/amenity check, whatever its price
\* tag, the price level the normalizer assigns, which the price filter reads
\* as the length of the price sign, is an integer from 1 to 4.
C3_PriceLevelInRange ==
    \A f \in FetchIds :
        fetch[f].pc = "filtering" =>
            \A i \in 1..Len(fetch[f].restaurants) :
                /\ Level(fetch[f].restaurants[i]) \in PriceLevels
                /\ ~PriceLevel(fetch[f].elements[i].tags).nan

\* The candidates of a list whose level lies in lo..hi, in their order.
WithLevelIn(restaurants, lo, hi) ==
    LET Keep(r) == lo <= Level(r) /\ Level(r) <= hi
    IN  SelectSeq(restaurants, Keep)

\* C9: with a configured range (minPrice, maxPrice) the price filter keeps
\* exactly the candidates whose level p has minPrice <= p <= maxPrice, both
\* ends included, in their original order; with an empty price setting it
\* removes nothing.
C9_PriceFilterInclusive ==
    [][\A f \in FetchIds :
          (fetch[f].pc = "filtering" /\ fetch'[f].pc = "deduping") =>
              /\ fetch[f].settings.price = <<>> =>
                    fetch'[f].restaurants = fetch[f].restaurants
              /\ \A lo \in PriceLevels, hi \in PriceLevels :
                    fetch[f].settings.price = Range(lo, hi) =>
                        fetch'[f].restaurants = WithLevelIn(fetch[f].restaurants, lo, hi)
      ]_vars

\* A filtered list that kept a candidate at each end of the range and lost
\* another candidate.
C9_Witness ==
    \E f \in FetchIds :
        /\ fetch[f].pc = "deduping"
        /\ fetch[f].settings.price = Range(1, 2)
        /\ Len(fetch[f].restaurants) < Len(fetch[f].elements)
        /\ \E i, j \in 1..Len(fetch[f].restaurants) :
              /\ Level(fetch[f].restaurants[i]) = 1
              /\ Level(fetch[f].restaurants[j]) = 2

\* The positions of a list that hold the first candidate of their name.
FirstOfName(restaurants) ==
    {k \in 1..Len(restaurants) : \A j \in 1..(k - 1) : restaurants[j].name # restaurants[k].name}

\* C10: the name dedup leaves no two candidates of the same name; for every
\* name of its input it keeps exactly the first candidate of that name, and
\* the kept candidates stay in their input order.
C10_DedupFirstWins ==
    [][\A f \in FetchIds :
          (fetch[f].pc = "deduping" /\ fetch'[f].pc = "storing") =>
              LET in == fetch[f].restaurants
                  out == fetch'[f].restaurants
                  first == FirstOfName(in)
              IN  /\ \A i, j \in 1..Len(out) : i # j => out[i].name # out[j].name
                  /\ Len(out) = Cardinality(first)
                  /\ \A i \in 1..Len(out) :
                        \E k \in first :
                            /\ Cardinality({j \in first : j < k}) = i - 1
                            /\ out[i] = in[k]
      ]_vars

\* A deduplicated list that lost a later candidate of a name it kept, and
\* kept two names.
C10_Witness ==
    \E f \in FetchIds :
        /\ fetch[f].pc = "storing"
        /\ fetch[f].settings.price = <<>>
        /\ Len(fetch[f].elements) = 3
        /\ fetch[f].elements[1].tags.name = fetch[f].elements[3].tags.name
        /\ Len(fetch[f].restaurants) = 2
        /\ fetch[f].restaurants[2].name # fetch[f].restaurants[1].name

\* C11: applying the price filter and then the name dedup to their own
\* output, with the same price setting, gives that output back, for every
\* candidate list and every price range.
C11_FilterDedupIdempotent ==
    \A f \in FetchIds :
        fetch[f].pc = "storing" =>
            RemoveDuplicates(PriceFilter(fetch[f].restaurants, fetch[f].settings.price))
                = fetch[f].restaurants

\* An output that both passes shortened: of three candidates the filter
\* removed one and the dedup another.
C11_Witness ==
    \E f \in FetchIds :
        /\ fetch[f].pc = "storing"
        /\ fetch[f].settings.price = Range(2, 2)
        /\ Len(fetch[f].elements) = 3
        /\ Len(PriceFilter(NormalizeAll(fetch[f].elements, fetch[f].settings),
                           fetch[f].settings.price)) = 2
        /\ Len(fetch[f].restaurants) = 1

\* The records of the scenario: A at "$$", A at "$$$", B at "1".
ScenarioRecords ==
    <<Node(1, PricedTags("A", <<"$", "$">>)),
      Node(2, PricedTags("A", <<"$", "$", "$">>)),
      Node(3, PricedTags("B", <<"1">>))>>

\* C16: the price filter runs before the name dedup: with a range (lo, hi) a
\* name is in the output exactly when some candidate of that name has its
\* level in the range, once, and its candidate is the first in-range one of
\* that name in input order, also behind an out-of-range candidate of the
\* same name; the scenario's records with range (1, 2) give A at level 2
\* and B at level 1.
C16_FilterBeforeDedup ==
    \A f \in FetchIds :
        fetch[f].pc = "storing" =>
            \A lo \in PriceLevels, hi \in PriceLevels :
                fetch[f].settings.price = Range(lo, hi) =>
                    LET in == NormalizeAll(fetch[f].elements, fetch[f].settings)
                        out == fetch[f].restaurants
                        Ok(k) == lo <= Level(in[k]) /\ Level(in[k]) <= hi
                        inRange == {k \in 1..Len(in) : Ok(k)}
                        firstOk == {k \in inRange :
                                        \A j \in inRange : j < k => in[j].name # in[k].name}
                    IN  /\ {out[i].name : i \in 1..Len(out)} = {in[k].name : k \in inRange}
                        /\ \A i, j \in 1..Len(out) : i # j => out[i].name # out[j].name
                        /\ \A i \in 1..Len(out) : \E k \in firstOk : out[i] = in[k]
                        /\ (fetch[f].elements = ScenarioRecords /\ lo = 1 /\ hi = 2) =>
                              /\ out = <<in[1], in[3]>>
                              /\ Level(out[1]) = 2
                              /\ Level(out[2]) = 1

\* The first candidate of a name was out of range and the second one, in
\* range, is the one in the output.
C16_Witness ==
    \E f \in FetchIds :
        /\ fetch[f].pc = "storing"
        /\ fetch[f].settings.price = Range(1, 2)
        /\ Len(fetch[f].elements) >= 2
        /\ fetch[f].elements[1].tags.name = fetch[f].elements[2].tags.name
        /\ Level(Normalize(fetch[f].elements[1], fetch[f].settings)) = 3
        /\ fetch[f].restaurants # <<>>
        /\ fetch[f].restaurants[1] = Normalize(fetch[f].elements[2], fetch[f].settings)

\* The number of occurrences of a character in a string.
Occurrences(s, c) == Cardinality({i \in 1..Len(s) : s[i] = c})

\* An integer brought into 1..4.
ClampInt(n) ==
    IF n < MinPriceLevel THEN MinPriceLevel ELSE IF n > MaxPriceLevel THEN MaxPriceLevel ELSE n

\* C17: the level of a record, clamped into 1..4, comes from three ordered
\* cases: a price tag with the currency symbol gives the number of symbols;
\* otherwise a price tag made of digits only gives its integer; no price tag,
\* or one with neither a symbol nor a digit, gives the default 2.
C17_PriceLevelCases ==
    \A f \in FetchIds :
        fetch[f].pc = "filtering" =>
            \A i \in 1..Len(fetch[f].restaurants) :
                LET tags == fetch[f].elements[i].tags
                    tagged == "price" \in DOMAIN tags
                    level == Level(fetch[f].restaurants[i])
                IN  /\ (tagged /\ Includes(tags.price, "$")) =>
                          level = ClampInt(Occurrences(tags.price, "$"))
                    /\ (tagged /\ AllDigits(tags.price)) =>
                          level = ClampInt(DigitsValue(tags.price))
                    /\ (tagged /\ ~Includes(tags.price, "$")
                               /\ \A j \in 1..Len(tags.price) : ~IsDigit(tags.price[j])) =>
                          level = DefaultPriceLevel
                    /\ ~tagged => level = DefaultPriceLevel

-----------------------------------------------------------------------------
(* Claims about the wheel, checked under SpecWheel *)

\* C1: whatever the sequence of wheel rebuilds and addRestaurantToWheel
\* calls, the wheel's options hold at most 8 entries.
C1_WheelAtMostEight == Len(options) <= WheelSize

FromHistory(option) ==
    \E j \in 1..Len(restaurantHistory) : option = Project(restaurantHistory[j])

\* Seven fetched candidates followed by a history entry: the entry was added
\* to a wheel rebuilt from 8 or more candidates, which was full.
C1_Witness ==
    /\ Len(options) = WheelSize
    /\ FromHistory(options[WheelSize])
    /\ \A i \in 1..(WheelSize - 1) : ~FromHistory(options[i])

\* C7: updateWheel over N candidates of pairwise different names leaves
\* exactly min(N, 8) options, each the {name, mapUrl} of a different
\* candidate of the list; none for N = 0.
C7_WheelIsSample ==
    [][\A f \in FetchIds :
          (fetch[f].pc = "waiting" /\ fetch'[f].pc = "revealed") =>
              LET rs == fetch[f].restaurants
                  N == Len(rs)
              IN  (\A i, j \in 1..N : i # j => rs[i].name # rs[j].name) =>
                      /\ Len(options') = IF N <= WheelSize THEN N ELSE WheelSize
                      /\ \A i \in 1..Len(options') :
                            \E j \in 1..N :
                                /\ options'[i].name = rs[j].name
                                /\ options'[i].mapUrl = rs[j].mapUrl
                                /\ DOMAIN options'[i] = {"name", "mapUrl"}
                      /\ \A i, k \in 1..Len(options') :
                            i # k => options'[i].name # options'[k].name
      ]_vars

\* A wheel just rebuilt from more than 8 candidates: it is full and shows the
\* last candidate of the list.
C7_Witness ==
    /\ \E f \in FetchIds : fetch[f].pc = "revealed"
    /\ Len(options) = WheelSize
    /\ \A i \in 1..WheelSize : ~FromHistory(options[i])
    /\ \E i \in 1..WheelSize : options[i].name = NamePool[MaxRecords]

\* C12: addRestaurantToWheel on a wheel of exactly 8 options leaves 8
\* options, the first 7 as they were and in their order, and the new entry in
\* the last position; on a wheel of fewer than 8 options it removes nothing and
\* puts the new entry at the end.
C12_AddReplacesLastSlot ==
    [][\A index \in 1..HistoryCap :
          AddToWheelClick(index) =>
              LET entry == [name |-> restaurantHistory[index].name,
                            mapUrl |-> restaurantHistory[index].mapUrl]
                  n == Len(options)
              IN  /\ n = WheelSize =>
                        /\ Len(options') = WheelSize
                        /\ \A i \in 1..(WheelSize - 1) : options'[i] = options[i]
                        /\ options'[WheelSize] = entry
                  /\ n < WheelSize =>
                        /\ Len(options') = n + 1
                        /\ \A i \in 1..n : options'[i] = options[i]
                        /\ options'[n + 1] = entry
      ]_vars

\* A wheel rebuilt from 8 or more candidates whose first seven options are
\* still in place and whose last slot holds the history entry Z.
C12_Witness ==
    /\ view = "main"
    /\ Len(options) = WheelSize
    /\ options[WheelSize] = Project(OldEntry("Z", 30))
    /\ \A i \in 1..(WheelSize - 1) : options[i].name = NamePool[i]

\* C19: in every reachable state no two options of the wheel have the same
\* name, after a rebuild and after every addRestaurantToWheel call.
C19_WheelNamesDistinct ==
    \A i, j \in 1..Len(options) : i # j => options[i].name # options[j].name

-----------------------------------------------------------------------------
(* Claims about the history log, checked under SpecHistory *)

\* C2: from a stored log of at most 20 entries, after any sequence of
\* saveToHistory calls neither the in-memory log nor the stored copy holds
\* more than 20 entries.
C2_HistoryAtMostTwenty ==
    /\ Len(restaurantHistory) <= HistoryCap
    /\ Len(storedHistory) <= HistoryCap

\* An append to a log that held 20 entries: its oldest entry is gone.
C2_Witness ==
    /\ Len(restaurantHistory) = HistoryCap
    /\ storedHistory = restaurantHistory
    /\ restaurantHistory[1].timestamp = 1
    /\ restaurantHistory[HistoryCap] = OldLog(HistoryCap)[HistoryCap - 1]

\* C8: right after saveToHistory(c) the entry at index 0 has every field of c
\* with c's value, and a timestamp, whatever the log held before.
C8_NewestIsSnapshot ==
    [][\A c \in HistoryInputs :
          SaveCall(c) =>
              /\ restaurantHistory' # <<>>
              /\ DOMAIN restaurantHistory'[1] = DOMAIN c \cup {"timestamp"}
              /\ \A k \in DOMAIN c : restaurantHistory'[1][k] = c[k]
      ]_vars

\* A full candidate appended to a log that already held 20 entries.
C8_Witness ==
    /\ Len(restaurantHistory) = HistoryCap
    /\ now = 1
    /\ restaurantHistory[1].timestamp = now
    /\ "osmUrl" \in DOMAIN restaurantHistory[1]
    /\ restaurantHistory[HistoryCap] = OldLog(HistoryCap)[HistoryCap - 1]

-----------------------------------------------------------------------------
(* Claims about the history log beside the wheel, checked under SpecLog *)

\* C18: only saveToHistory changes the history log.  A step that changes the
\* stored log or the in-memory log is a saveToHistory call, after which both
\* hold the old entries unchanged and in their order behind the new one, all of
\* them unless the log already held 20, and then all but the last; or it is
\* the load that brings the stored log into memory.  No step that writes the
\* wheel or the candidate cache (add-to-wheel, rebuild), changes the view
\* (history view, add-to-wheel) or moves a started fetch changes either; a
\* view-on-map click changes nothing at all.
C18_OnlyAppendChangesLog ==
    [][/\ (restaurantHistory' # restaurantHistory \/ storedHistory' # storedHistory) =>
              \/ /\ appPc = "loadingHistory"
                 /\ appPc' = "loadingSettings"
                 /\ storedHistory' = storedHistory
                 /\ restaurantHistory' = storedHistory
              \/ /\ \E c \in LogInputs : SaveCall(c)
                 /\ storedHistory' = restaurantHistory'
                 /\ Len(restaurantHistory') = Min(Len(restaurantHistory) + 1, HistoryCap)
                 /\ \A i \in 2..Len(restaurantHistory') :
                       restaurantHistory'[i] = restaurantHistory[i - 1]
       /\ (\/ options' # options
           \/ restaurantDetails' # restaurantDetails
           \/ view' # view
           \/ \E f \in FetchIds : fetch[f].pc # "idle" /\ fetch'[f] # fetch[f]) =>
              UNCHANGED <<restaurantHistory, storedHistory>>
      ]_vars

\* Two appends on a stored log of 19 entries, the second on a full log: the
\* oldest entry is gone, the others follow the two new ones; the wheel has
\* been rebuilt and filled with entries of the log.
C18_Witness ==
    /\ Len(restaurantHistory) = HistoryCap
    /\ storedHistory = restaurantHistory
    /\ now = 2
    /\ restaurantHistory[1].timestamp = 2
    /\ restaurantHistory[2].timestamp = 1
    /\ \A i \in 3..HistoryCap : restaurantHistory[i] = PastLog(HistoryCap - 1)[i - 2]
    /\ fetch[1].pc = "revealed"
    /\ Len(options) = WheelSize
    /\ options[1] # Project(Favourite)
    /\ options[WheelSize] = Project(Favourite)

-----------------------------------------------------------------------------
(* Claims about the fetch operation, checked under Spec *)

\* C4: a fetch that fails or aborts leaves the options as they were; a step
\* of a fetch changes the options only by replacing them with the whole new
\* wheel, at the reveal.
C4_FetchKeepsOrReplacesWheel ==
    [][\A f \in FetchIds :
          fetch'[f].pc # fetch[f].pc =>
              \/ options' = options
              \/ /\ fetch[f].pc = "waiting"
                 /\ fetch'[f].pc = "revealed"
                 /\ Len(options') = Min(Len(fetch[f].restaurants), WheelSize)
                 /\ \A i \in 1..Len(options') :
                       \E j \in 1..Len(fetch[f].restaurants) :
                           options'[i] = Project(fetch[f].restaurants[j])
      ]_vars

\* The second fetch was started after the first had revealed its wheel (the
\* loading GIF is still shown) and failed; the wheel is still there.
C4_Witness ==
    /\ fetch[1].pc = "revealed"
    /\ fetch[2].pc \in {"aborted", "failed"}
    /\ loadingGif = "block"
    /\ Len(options) = 2

\* C5: every fetch that was started ends with the loading GIF hidden and the
\* wheel visible, on success and on every error: once no fetch is in flight
\* the display is the one before the fetch.
C5_EndedFetchRestoresDisplay ==
    (\A f \in FetchIds : fetch[f].pc \in Ended \cup {"idle"}) =>
        /\ loadingGif = "none"
        /\ wheelDisplay = "block"

\* C6: a fetch that ends with no candidate has signalled it to the user: the
\* empty-result exits alert, and a wheel of zero options is revealed only by
\* a fetch that alerted.
C6_EmptyWheelSignalled ==
    [][\A f \in FetchIds :
          /\ (fetch[f].pc = "parsing" /\ fetch'[f].pc = "aborted") =>
                fetch'[f].alert # "none"
          /\ (fetch[f].pc = "waiting" /\ fetch'[f].pc = "revealed" /\ options' = <<>>) =>
                fetch[f].alert # "none"
      ]_vars

\* The fetches between their start and their end.
InFlight == {f \in FetchIds : fetch[f].pc \notin Ended \cup {"idle"}}

\* C14: nothing guards the reveal by the order of issue: when the timer of an
\* earlier-issued fetch fires after a later-issued fetch has revealed its
\* wheel, the options and the candidate cache are overwritten with the
\* earlier fetch's result.
C14_StaleFetchOverwrites ==
    [][\A f \in FetchIds, g \in FetchIds :
          (/\ f < g
           /\ fetch[g].pc = "revealed"
           /\ fetch[f].pc = "waiting"
           /\ fetch'[f].pc = "revealed") =>
              /\ Len(options') = Min(Len(fetch[f].restaurants), WheelSize)
              /\ \A i \in 1..Len(options') :
                    \E j \in 1..Len(fetch[f].restaurants) :
                        options'[i] = Project(fetch[f].restaurants[j])
              /\ restaurantDetails' = options'
      ]_vars

\* Both fetches have revealed, the settings saved before the second fetch
\* ask for levels 3 to 4, and the wheel and the cache hold a restaurant of
\* level 1 or 2: the second fetch cannot have put it there, so the first
\* fetch, working with the settings before the save, wrote last.
C14_Witness ==
    /\ fetch[1].pc = "revealed"
    /\ fetch[2].pc = "revealed"
    /\ pendingSaves = 0
    /\ storedSettings.price = Range(3, 4)
    /\ \E i \in 1..Len(options) : options[i].name = "A"
    /\ restaurantDetails = options

\* C15: at most one fetch is in flight at any time: from the start of a
\* fetch to its reveal, abort or failure no second fetch is started.
C15_AtMostOneInFlight == Cardinality(InFlight) <= 1

====
